---- MODULE Spec2Model ----
(***************************************************************************)
(* State-machine model of Routers/user.py: captcha issuance, registration, *)
(* login, password recovery, profile update and the address book.          *)
(*                                                                         *)
(* A handler is `async def`: it runs without interruption between two      *)
(* awaits, so each action below is one such segment.  The awaits of        *)
(* user_reg / user_recover (cache.get, cache.delete) split these handlers  *)
(* in four segments; the other handlers hold no await between their first  *)
(* store access and their commit and are single actions.                   *)
(***************************************************************************)
EXTENDS Integers, FiniteSets, Sequences, TLC

VARIABLES
    users,      \* rows of UserDb
    addresses,  \* rows of AddressDb
    cache,      \* Services.Cache.cache: request_id -> [value, ttl]
    sent,       \* captcha mails delivered: request_id -> [to, purpose, code]
    consumed,   \* request ids a register / recover has succeeded with
    inflight,   \* the suspended user_reg / user_recover handlers
    resp        \* the response being returned to the client, NoResp if none

vars == <<users, addresses, cache, sent, consumed, inflight, resp>>

----------------------------------------------------------------------------
(* Bounds of the model *)

MaxRequestIds == 2
MaxAids == 3
MaxInFlight == 2
TickSeconds == 150

(* Program constants *)

CaptchaTtl == 300

----------------------------------------------------------------------------
(* Input domains *)

RequestIds == 1..MaxRequestIds
Aids == 1..MaxAids
Slots == 1..MaxInFlight
EmailInputs == {"a@x.io", "a@X.io", "b@x.io", "bad"}
Usernames == {"u1", "u2"}
Passwords == {"p1", "p2"}
Codes == {"c1", "c2"}
GenderInputs == {"1", "9", "x"}
Salts == {"s1"}
Birthdays == {"d1"}
AddressTexts == {<<"addr1", "tel1", "name1">>, <<"addr2", "tel2", "name2">>}

(* Optional values: {} is None, {v} is v *)
None == {}
Some(v) == {v}

----------------------------------------------------------------------------
(* Collaborators *)

\* validate_email(email, check_deliverability=False).normalized; an address
\* outside the domain raises EmailNotValidError.  Normalisation lower-cases
\* the domain part.
Normalized == ("a@x.io" :> "a@x.io") @@ ("a@X.io" :> "a@x.io") @@ ("b@x.io" :> "b@x.io")

EmailValid(email) == email \in DOMAIN Normalized

\* int(gender): ValueError on a non-numeric string
IntOf == ("1" :> 1) @@ ("2" :> 2) @@ ("9" :> 9)

\* the members of the Gender enum
GenderValues == {1, 2}

\* Gender(int(gender)) raises ValueError unless the string is the number of a member
GenderValid(gender) == gender \in DOMAIN IntOf /\ IntOf[gender] \in GenderValues

\* bcrypt.hashpw(password, bcrypt.gensalt())
hashpw(password, salt) == [salt |-> salt, plain |-> password]

\* bcrypt.checkpw(password, hashed)
checkpw(password, hashed) == hashed = hashpw(password, hashed.salt)

\* Permission.USER < Permission.ADMIN
PermissionLevel == ("USER" :> 0) @@ ("ADMIN" :> 1)

Permissions == DOMAIN PermissionLevel

\* Services.Security.user.verify_user(user, permission) -> bool
verify_user(user, permission) == PermissionLevel[user.permission] >= PermissionLevel[permission]

\* cache.get(key): the value, None when the key is absent or expired
cache_get(key) == IF key \in DOMAIN cache THEN Some(cache[key].value) ELSE None

\* cache.set(key, value, ttl)
cache_set(key, value, ttl) == (key :> [value |-> value, ttl |-> ttl]) @@ cache

\* cache.delete(key)
cache_delete(key) == [k \in DOMAIN cache \ {key} |-> cache[k]]

\* uuid4().hex: an identifier never produced before
FreshRequestIds == RequestIds \ DOMAIN sent

uuid4 == CHOOSE r \in FreshRequestIds : \A q \in FreshRequestIds : r <= q

----------------------------------------------------------------------------
(* SQLAlchemy filters.  A clause `Column == value` is an object; Python's   *)
(* `or` / `and` between two clauses take the truth value of the left one,   *)
(* which for an == clause compares the hashes of the column and of the      *)
(* bound value and is False.                                                *)

Clause(col, val) == [col |-> col, val |-> val]

ClauseBool(clause) == FALSE

PyOr(a, b) == IF ClauseBool(a) THEN a ELSE b

PyAnd(a, b) == IF ClauseBool(a) THEN b ELSE a

\* db.query(T).filter(clause): the rows the clause selects
Query(rows, clause) == {row \in rows : row[clause.col] = clause.val}

----------------------------------------------------------------------------
(* Responses *)

NoResp == [op |-> "none"]

Idle == [op |-> "idle"]

Response(op, kind, req, data) == [op |-> op, kind |-> kind, req |-> req, data |-> data]

NoData == [none |-> TRUE]

Busy == {s \in Slots : inflight[s] # Idle}

\* the slot a new handler is suspended in
FreeSlot == CHOOSE s \in Slots \ Busy : \A t \in Slots \ Busy : s <= t

\* a request is taken up when the last response has gone out and fewer than
\* `limit` handlers are in progress
MayStart(limit) == resp = NoResp /\ Cardinality(Busy) < limit

\* a suspended handler goes on
MayResume(slot, op, pc) ==
    resp = NoResp /\ inflight[slot].op = op /\ inflight[slot].pc = pc

Suspend(record) == inflight' = [inflight EXCEPT ![FreeSlot] = record]

Finish(slot) == inflight' = [inflight EXCEPT ![slot] = Idle]

----------------------------------------------------------------------------
(* Initial state: empty store, empty cache *)

Init ==
    /\ users = {}
    /\ addresses = {}
    /\ cache = [k \in {} |-> k]
    /\ sent = [k \in {} |-> k]
    /\ consumed = {}
    /\ inflight = [s \in Slots |-> Idle]
    /\ resp = NoResp

----------------------------------------------------------------------------
(* GET /user/captcha/register and /user/captcha/recover *)

IssueCaptcha(op, purpose, email, captcha) ==
    IF ~EmailValid(email)
    THEN /\ resp' = Response(op, "INVALID_OPERATION", [email |-> email], NoData)
         /\ UNCHANGED <<users, addresses, cache, sent, consumed, inflight>>
    ELSE /\ FreshRequestIds # {}
         /\ cache' = cache_set(uuid4, captcha, CaptchaTtl)
         /\ sent' = (uuid4 :> [to |-> Normalized[email], purpose |-> purpose,
                                   code |-> captcha]) @@ sent
         /\ resp' = Response(op, "OK", [email |-> email], [request_id |-> uuid4])
         /\ UNCHANGED <<users, addresses, consumed, inflight>>

user_req_register_captcha(limit, email, captcha) ==
    /\ MayStart(limit)
    /\ IssueCaptcha("user_req_register_captcha", "REGISTER", email, captcha)

user_req_recover_captcha(limit, email, captcha) ==
    /\ MayStart(limit)
    /\ IssueCaptcha("user_req_recover_captcha", "RECOVER_PASSWORD", email, captcha)

----------------------------------------------------------------------------
(* POST /user/register *)

IsInitUser_IsNotNone(db) == db # {}

\* db.query(UserDb).first() is None
IsInitUser(db) == db = {}

\* filter(UserDb.email == normalized_email or UserDb.username == username)
RegDuplicateFilter(normalized_email, username) ==
    PyOr(Clause("email", normalized_email), Clause("username", username))

CaptchaRejected_MissingAccepted(cached_captcha, captcha) ==
    cached_captcha # None /\ cached_captcha # Some(captcha)

\* (cached_captcha := await cache.get(request_id)) is None or cached_captcha != captcha
CaptchaRejected(cached_captcha, captcha) ==
    cached_captcha = None \/ cached_captcha # Some(captcha)

\* Permission.ADMIN() if is_init_user else Permission.USER()
RegPermission(is_init_user) == IF is_init_user THEN "ADMIN" ELSE "USER"

RegReq(email, username, captcha, request_id) ==
    [email |-> email, username |-> username, captcha |-> captcha, request_id |-> request_id]

\* lines 89-110: up to the call of cache.get
user_reg_start(limit, email, username, password, gender, captcha, request_id) ==
    /\ MayStart(limit)
    /\ UNCHANGED <<users, addresses, cache, sent, consumed>>
    /\ IF ~EmailValid(email) \/ ~GenderValid(gender)
       THEN /\ resp' = Response("user_reg", "INVALID_OPERATION",
                                RegReq(email, username, captcha, request_id), NoData)
            /\ UNCHANGED inflight
       ELSE IF Query(users, RegDuplicateFilter(Normalized[email], username)) # {}
       THEN /\ resp' = Response("user_reg", "RESOURCE_CONFILCT",
                                RegReq(email, username, captcha, request_id), NoData)
            /\ UNCHANGED inflight
       ELSE /\ Suspend([op |-> "user_reg", pc |-> "get", email |-> email,
                        username |-> username, password |-> password,
                        gender |-> IntOf[gender], captcha |-> captcha,
                        request_id |-> request_id,
                        is_init_user |-> IsInitUser(users)])
            /\ UNCHANGED resp

user_reg_get_ConsumesOnReject(slot) ==
    LET r == inflight[slot] IN
    /\ MayResume(slot, "user_reg", "get")
    /\ UNCHANGED <<users, addresses, sent, consumed>>
    /\ IF CaptchaRejected(cache_get(r.request_id), r.captcha)
       THEN /\ resp' = Response("user_reg", "CAPTCHA_FAILED",
                                RegReq(r.email, r.username, r.captcha, r.request_id), NoData)
            /\ cache' = cache_delete(r.request_id)
            /\ Finish(slot)
       ELSE /\ inflight' = [inflight EXCEPT ![slot].pc = "delete"]
            /\ UNCHANGED <<resp, cache>>

\* lines 109-112: cache.get returns; the captcha is compared
user_reg_get(slot) ==
    LET r == inflight[slot] IN
    /\ MayResume(slot, "user_reg", "get")
    /\ UNCHANGED <<users, addresses, cache, sent, consumed>>
    /\ IF CaptchaRejected(cache_get(r.request_id), r.captcha)
       THEN /\ resp' = Response("user_reg", "CAPTCHA_FAILED",
                                RegReq(r.email, r.username, r.captcha, r.request_id), NoData)
            /\ Finish(slot)
       ELSE /\ inflight' = [inflight EXCEPT ![slot].pc = "delete"]
            /\ UNCHANGED resp

user_reg_delete_Skipped(slot) ==
    /\ MayResume(slot, "user_reg", "delete")
    /\ inflight' = [inflight EXCEPT ![slot].pc = "commit"]
    /\ UNCHANGED <<users, addresses, cache, sent, consumed, resp>>

\* line 114: cache.delete takes effect
user_reg_delete(slot) ==
    LET r == inflight[slot] IN
    /\ MayResume(slot, "user_reg", "delete")
    /\ cache' = cache_delete(r.request_id)
    /\ inflight' = [inflight EXCEPT ![slot].pc = "commit"]
    /\ UNCHANGED <<users, addresses, sent, consumed, resp>>

\* lines 116-128: db.add, db.commit
user_reg_commit(slot, salt) ==
    LET r == inflight[slot] IN
    /\ MayResume(slot, "user_reg", "commit")
    /\ users' = users \cup {[uid |-> r.request_id,
                             email |-> Normalized[r.email],
                             username |-> r.username,
                             password |-> hashpw(r.password, salt),
                             permission |-> RegPermission(r.is_init_user),
                             birthday |-> None,
                             gender |-> r.gender]}
    /\ consumed' = consumed \cup {r.request_id}
    /\ resp' = Response("user_reg", "OK", RegReq(r.email, r.username, r.captcha, r.request_id), NoData)
    /\ Finish(slot)
    /\ UNCHANGED <<addresses, cache, sent>>

----------------------------------------------------------------------------
(* POST /user/login *)

\* create_access_token(data={"sub": user.username, "id": user.uid}, ...)
create_access_token(user) == [sub |-> user.username, id |-> user.uid]

LoginReq(username, password) == [username |-> username, password |-> password]

\* the rows .filter(UserDb.username == body.username).first() may return
LoginCandidates(db, username) == Query(db, Clause("username", username))

LoginAccepts_NoPasswordCheck(candidates, user, password) ==
    candidates # {} /\ user \in candidates

\* not (user is None or not bcrypt.checkpw(password, user.password))
LoginAccepts(candidates, user, password) ==
    /\ candidates # {}
    /\ user \in candidates
    /\ checkpw(password, user.password)

user_login(limit, username, password) ==
    /\ MayStart(limit)
    /\ UNCHANGED <<users, addresses, cache, sent, consumed, inflight>>
    /\ LET candidates == LoginCandidates(users, username) IN
       \/ /\ candidates = {}
          /\ resp' = Response("user_login", "AUTH_FAILED", LoginReq(username, password), NoData)
       \/ \E user \in candidates :
            IF LoginAccepts(candidates, user, password)
            THEN resp' = Response("user_login", "OK", LoginReq(username, password),
                                  [access_token |-> create_access_token(user),
                                   token_type |-> "bearer"])
            ELSE resp' = Response("user_login", "AUTH_FAILED",
                                  LoginReq(username, password), NoData)

----------------------------------------------------------------------------
(* POST /user/recover *)

RecoverReq(email, captcha, request_id) ==
    [email |-> email, captcha |-> captcha, request_id |-> request_id]

RecoverCandidates_Any(db, email) == db

\* the rows .filter(UserDb.email == email).first() may return; the email is
\* compared as submitted, it is not normalised here
RecoverCandidates(db, email) == Query(db, Clause("email", email))

\* lines 165-169: up to the call of cache.get
user_recover_start(limit, email, password, captcha, request_id) ==
    /\ MayStart(limit)
    /\ UNCHANGED <<users, addresses, cache, sent, consumed>>
    /\ \/ /\ RecoverCandidates(users, email) = {}
          /\ resp' = Response("user_recover", "NOT_FOUND", RecoverReq(email, captcha, request_id),
                           NoData)
          /\ UNCHANGED inflight
       \/ \E record \in RecoverCandidates(users, email) :
            /\ Suspend([op |-> "user_recover", pc |-> "get", email |-> email,
                        password |-> password, captcha |-> captcha,
                        request_id |-> request_id, record |-> record])
            /\ UNCHANGED resp

\* lines 168-171: cache.get returns; the captcha is compared
user_recover_get(slot) ==
    LET r == inflight[slot] IN
    /\ MayResume(slot, "user_recover", "get")
    /\ UNCHANGED <<users, addresses, cache, sent, consumed>>
    /\ IF CaptchaRejected(cache_get(r.request_id), r.captcha)
       THEN /\ resp' = Response("user_recover", "CAPTCHA_FAILED",
                                RecoverReq(r.email, r.captcha, r.request_id), NoData)
            /\ Finish(slot)
       ELSE /\ inflight' = [inflight EXCEPT ![slot].pc = "delete"]
            /\ UNCHANGED resp

user_recover_delete_Skipped(slot) ==
    /\ MayResume(slot, "user_recover", "delete")
    /\ inflight' = [inflight EXCEPT ![slot].pc = "commit"]
    /\ UNCHANGED <<users, addresses, cache, sent, consumed, resp>>

\* line 173: cache.delete takes effect
user_recover_delete(slot) ==
    LET r == inflight[slot] IN
    /\ MayResume(slot, "user_recover", "delete")
    /\ cache' = cache_delete(r.request_id)
    /\ inflight' = [inflight EXCEPT ![slot].pc = "commit"]
    /\ UNCHANGED <<users, addresses, sent, consumed, resp>>

\* lines 175-183: the row loaded at line 165 gets the new hash; db.commit
\* writes the password column of the row with that uid
user_recover_commit(slot, salt) ==
    LET r == inflight[slot] IN
    /\ MayResume(slot, "user_recover", "commit")
    /\ users' = {IF u.uid = r.record.uid THEN [u EXCEPT !.password = hashpw(r.password, salt)] ELSE u :
                 u \in users}
    /\ consumed' = consumed \cup {r.request_id}
    /\ resp' = Response("user_recover", "OK", RecoverReq(r.email, r.captcha, r.request_id),
                        [username |-> r.record.username])
    /\ Finish(slot)
    /\ UNCHANGED <<addresses, cache, sent>>

----------------------------------------------------------------------------
(* PUT /user/profile/{uid} *)

\* UpdateUser: every field is optional
UpdateUserBodies ==
    [birthday : {None} \cup {Some(d) : d \in Birthdays},
     gender : {None, Some(2)},
     permission : {None} \cup {Some(p) : p \in Permissions},
     password : {None, Some("p2")}]

UpdateReq(caller, uid, body) == [caller |-> caller.uid, uid |-> uid, body |-> body]

\* `assert verify_user(user, Permission.ADMIN)`: a failing assert raises
\* AssertionError, which no handler maps to an error response
AssertAdmin(user) == verify_user(user, "ADMIN")

\* lines 197-208 applied to the row
ApplyPatch(record, body, salt) ==
    [record EXCEPT
        !.birthday = IF body.birthday # None THEN body.birthday ELSE @,
        !.gender = IF body.gender # None THEN CHOOSE g \in body.gender : TRUE ELSE @,
        !.permission = IF body.permission # None /\ Some(@) # body.permission
                       THEN CHOOSE p \in body.permission : TRUE ELSE @,
        !.password = IF body.password # None
                     THEN hashpw(CHOOSE p \in body.password : TRUE, salt) ELSE @]

user_update(limit, caller, uid, body, salt) ==
    /\ MayStart(limit)
    /\ caller \in users
    /\ UNCHANGED <<addresses, cache, sent, consumed, inflight>>
    /\ IF uid # caller.uid /\ ~AssertAdmin(caller)
       THEN /\ resp' = Response("user_update", "AssertionError",
                                UpdateReq(caller, uid, body), NoData)
            /\ UNCHANGED users
       ELSE \/ /\ Query(users, Clause("uid", uid)) = {}
               /\ resp' = Response("user_update", "NOT_FOUND",
                                   UpdateReq(caller, uid, body), NoData)
               /\ UNCHANGED users
            \/ \E record \in Query(users, Clause("uid", uid)) :
                 IF /\ body.permission # None
                    /\ Some(record.permission) # body.permission
                    /\ ~AssertAdmin(caller)
                 THEN \* the session is discarded without a commit
                      /\ resp' = Response("user_update", "AssertionError",
                                          UpdateReq(caller, uid, body), NoData)
                      /\ UNCHANGED users
                 ELSE /\ users' = (users \ {record}) \cup {ApplyPatch(record, body, salt)}
                      /\ resp' = Response("user_update", "OK",
                                          UpdateReq(caller, uid, body), NoData)

----------------------------------------------------------------------------
(* Cancellation: a handler suspended at `await cache.get` or `await         *)
(* cache.delete` is cancelled (the client has gone).  CancelledError is     *)
(* raised at the await; user_reg and user_recover hold no try / finally, so *)
(* the handler ends there: the session is discarded without a commit and    *)
(* the cache is left as it is.  `pc` tells how far the handler had come:    *)
(* "commit" is the handler whose cache.delete has taken effect.             *)

CancelReq(r) ==
    IF r.op = "user_reg"
    THEN RegReq(r.email, r.username, r.captcha, r.request_id)
    ELSE RecoverReq(r.email, r.captcha, r.request_id)

Cancel(slot) ==
    LET r == inflight[slot] IN
    /\ resp = NoResp
    /\ r # Idle
    /\ resp' = Response(r.op, "CANCELLED", CancelReq(r), [pc |-> r.pc])
    /\ Finish(slot)
    /\ UNCHANGED <<users, addresses, cache, sent, consumed>>

----------------------------------------------------------------------------
(* The cache's time-to-live: TickSeconds pass; entries whose time is up go *)

Tick ==
    /\ cache' = [k \in {q \in DOMAIN cache : cache[q].ttl > TickSeconds} |->
                    [cache[k] EXCEPT !.ttl = @ - TickSeconds]]
    /\ resp = NoResp
    /\ UNCHANGED <<users, addresses, sent, consumed, inflight, resp>>

----------------------------------------------------------------------------------------------------------------------------------------
(* The address book *)

\* AddressRequest: is_default, address, phone, name
AddressRequests ==
    {[is_default |-> d, address |-> t[1], phone |-> t[2], name |-> t[3]] :
        d \in BOOLEAN, t \in AddressTexts}

AddressReq(caller, aid, body) == [caller |-> caller.uid, aid |-> aid, body |-> body]

\* body.to_address(uid): the request's fields under a new aid
FreeAids == Aids \ {a.aid : a \in addresses}

NewAid == CHOOSE a \in FreeAids : \A b \in FreeAids : a <= b

to_address(body, uid) ==
    [aid |-> NewAid, uid |-> uid, is_default |-> body.is_default,
     address |-> body.address, phone |-> body.phone, name |-> body.name]

\* query.update(values): the selected rows get the values, the others stay
BulkUpdate(rows, selected, values) ==
    {IF row \in selected
     THEN [f \in DOMAIN row |-> IF f \in DOMAIN values THEN values[f] ELSE row[f]]
     ELSE row : row \in rows}

ClearDefaults_Skipped(rows, uid) == rows

\* db.query(AddressDb).filter(AddressDb.uid == user.uid).update({"is_default": False})
ClearDefaults(rows, uid) ==
    BulkUpdate(rows, Query(rows, Clause("uid", uid)), [is_default |-> FALSE])

OwnedAddressFilter_AidOnly(uid, aid) == Clause("aid", aid)

\* filter(AddressDb.uid == user.uid and AddressDb.aid == aid.hex)
OwnedAddressFilter(uid, aid) == PyAnd(Clause("uid", uid), Clause("aid", aid))

\* GET /user/address
get_address(limit, caller) ==
    /\ MayStart(limit)
    /\ caller \in users
    /\ resp' = Response("get_address", "OK", [caller |-> caller.uid],
                        [addresses |-> Query(addresses, Clause("uid", caller.uid))])
    /\ UNCHANGED <<users, addresses, cache, sent, consumed, inflight>>

\* POST /user/address
add_address(limit, caller, body) ==
    /\ MayStart(limit)
    /\ caller \in users
    /\ FreeAids # {}
    /\ LET cleared == IF body.is_default THEN ClearDefaults(addresses, caller.uid)
                      ELSE addresses
       IN addresses' = cleared \cup {to_address(body, caller.uid)}
    /\ resp' = Response("add_address", "OK", AddressReq(caller, NewAid, body), NoData)
    /\ UNCHANGED <<users, cache, sent, consumed, inflight>>

\* PUT /user/address/{aid}: `record` is the query itself (never None), and
\* record.update(...) writes every row the filter selects
update_address(limit, caller, aid, body) ==
    /\ MayStart(limit)
    /\ caller \in users
    /\ LET cleared == IF body.is_default THEN ClearDefaults(addresses, caller.uid)
                      ELSE addresses
           record == Query(cleared, OwnedAddressFilter(caller.uid, aid))
       IN addresses' = BulkUpdate(cleared, record, body)
    /\ resp' = Response("update_address", "OK", AddressReq(caller, aid, body), NoData)
    /\ UNCHANGED <<users, cache, sent, consumed, inflight>>

\* DELETE /user/address/{aid}: .first() returns one of the selected rows
delete_address(limit, caller, aid) ==
    /\ MayStart(limit)
    /\ caller \in users
    /\ UNCHANGED <<users, cache, sent, consumed, inflight>>
    /\ LET selected == Query(addresses, OwnedAddressFilter(caller.uid, aid)) IN
       \/ /\ selected = {}
          /\ resp' = Response("delete_address", "NOT_FOUND",
                              [caller |-> caller.uid, aid |-> aid], NoData)
          /\ UNCHANGED addresses
       \/ \E record \in selected :
            /\ addresses' = addresses \ {record}
            /\ resp' = Response("delete_address", "OK",
                                [caller |-> caller.uid, aid |-> aid], [deleted |-> record.aid])

----------------------------------------------------------------------------
(* The response goes out to the client *)

Respond ==
    /\ resp # NoResp
    /\ resp' = NoResp
    /\ UNCHANGED <<users, addresses, cache, sent, consumed, inflight>>

----------------------------------------------------------------------------
(* Specifications *)

\* identifiers a client may submit: those the server produced, and 0 for one
\* it never produced
UidInputs == {0} \cup RequestIds

RegisterCaptcha(limit, emails, codes) ==
    \E email \in emails, captcha \in codes : user_req_register_captcha(limit, email, captcha)

RecoverCaptcha(limit, emails, codes) ==
    \E email \in emails, captcha \in codes : user_req_recover_captcha(limit, email, captcha)

Register(limit, emails, passwords, genders) ==
    \/ \E email \in emails, username \in Usernames, password \in passwords,
          gender \in genders, captcha \in Codes, request_id \in RequestIds :
         user_reg_start(limit, email, username, password, gender, captcha, request_id)
    \/ \E slot \in Slots : user_reg_get(slot)
    \/ \E slot \in Slots : user_reg_delete(slot)
    \/ \E slot \in Slots, salt \in Salts : user_reg_commit(slot, salt)

Recover(limit, emails, passwords) ==
    \/ \E email \in emails, password \in passwords, captcha \in Codes,
          request_id \in RequestIds :
         user_recover_start(limit, email, password, captcha, request_id)
    \/ \E slot \in Slots : user_recover_get(slot)
    \/ \E slot \in Slots : user_recover_delete(slot)
    \/ \E slot \in Slots, salt \in Salts : user_recover_commit(slot, salt)

Login(limit) ==
    \E username \in Usernames, password \in Passwords : user_login(limit, username, password)

\* Requests served one at a time: captcha, register, recover, login
Next ==
    \/ RegisterCaptcha(1, EmailInputs, Codes)
    \/ RecoverCaptcha(1, EmailInputs, Codes)
    \/ Register(1, EmailInputs, Passwords, GenderInputs)
    \/ Recover(1, EmailInputs, Passwords)
    \/ Login(1)
    \/ Tick
    \/ Respond

Spec == Init /\ [][Next]_vars

\* The store after two registrations: the bootstrap admin and a plain user
InitRegistered ==
    /\ users = {[uid |-> 1, email |-> "a@x.io", username |-> "u1",
                 password |-> hashpw("p1", "s1"), permission |-> RegPermission(TRUE),
                 birthday |-> None, gender |-> 1],
                [uid |-> 2, email |-> "b@x.io", username |-> "u2",
                 password |-> hashpw("p1", "s1"), permission |-> RegPermission(FALSE),
                 birthday |-> None, gender |-> 1]}
    /\ addresses = {}
    /\ cache = [k \in {} |-> k]
    /\ sent = [k \in {1, 2} |-> [to |-> IF k = 1 THEN "a@x.io" ELSE "b@x.io",
                                 purpose |-> "REGISTER", code |-> "c1"]]
    /\ consumed = {1, 2}
    /\ inflight = [s \in Slots |-> Idle]
    /\ resp = NoResp

\* Two registered users log in and update profiles
NextProfile ==
    \/ Login(1)
    \/ \E caller \in users, uid \in UidInputs, body \in UpdateUserBodies, salt \in Salts :
         user_update(1, caller, uid, body, salt)
    \/ Respond

SpecProfile == InitRegistered /\ [][NextProfile]_vars

\* Two registered users work on their address books
NextAddress ==
    \/ \E caller \in users : get_address(1, caller)
    \/ \E caller \in users, body \in AddressRequests : add_address(1, caller, body)
    \/ \E caller \in users, aid \in Aids, body \in AddressRequests :
         update_address(1, caller, aid, body)
    \/ \E caller \in users, aid \in Aids : delete_address(1, caller, aid)
    \/ Respond

SpecAddress == InitRegistered /\ [][NextAddress]_vars

\* Up to MaxInFlight registrations in progress at once
ConcEmails == {"a@x.io", "b@x.io"}

ConcPasswords == {"p1"}

ConcGenders == {"1"}

ConcCodes == {"c1"}

NextConc ==
    \/ RegisterCaptcha(MaxInFlight, ConcEmails, ConcCodes)
    \/ Register(MaxInFlight, ConcEmails, ConcPasswords, ConcGenders)
    \/ Respond

SpecConc == Init /\ [][NextConc]_vars

\* Up to MaxInFlight registrations and recoveries in progress at once, any
\* of which may be cancelled at an await
RaceEmails == {"a@x.io"}

NextRace ==
    \/ RegisterCaptcha(MaxInFlight, RaceEmails, ConcCodes)
    \/ RecoverCaptcha(MaxInFlight, RaceEmails, ConcCodes)
    \/ Register(MaxInFlight, RaceEmails, ConcPasswords, ConcGenders)
    \/ Recover(MaxInFlight, RaceEmails, Passwords)
    \/ \E slot \in Slots : Cancel(slot)
    \/ Respond

SpecRace == Init /\ [][NextRace]_vars

\* The store after three registrations made with earlier request ids (-1, -2
\* and -3, outside the pool the new challenges are drawn from): the bootstrap
\* admin, a plain user, and a second plain user whose email a@x.io the
\* duplicate filter of user_reg let pass
InitRecover ==
    /\ users = {[uid |-> -1, email |-> "a@x.io", username |-> "u1",
                 password |-> hashpw("p1", "s1"), permission |-> RegPermission(TRUE),
                 birthday |-> None, gender |-> 1],
                [uid |-> -2, email |-> "b@x.io", username |-> "u2",
                 password |-> hashpw("p1", "s1"), permission |-> RegPermission(FALSE),
                 birthday |-> None, gender |-> 1],
                [uid |-> -3, email |-> "a@x.io", username |-> "u3",
                 password |-> hashpw("p1", "s1"), permission |-> RegPermission(FALSE),
                 birthday |-> None, gender |-> 1]}
    /\ addresses = {[aid |-> 1, uid |-> -1, is_default |-> TRUE,
                     address |-> "addr1", phone |-> "tel1", name |-> "name1"]}
    /\ cache = [k \in {} |-> k]
    /\ sent = [k \in {-3, -2, -1} |-> [to |-> IF k = -2 THEN "b@x.io" ELSE "a@x.io",
                                        purpose |-> "REGISTER", code |-> "c1"]]
    /\ consumed = {-3, -2, -1}
    /\ inflight = [s \in Slots |-> Idle]
    /\ resp = NoResp

\* Registered users recover their passwords, one request at a time
NextRecover ==
    \/ RecoverCaptcha(1, EmailInputs, Codes)
    \/ Recover(1, EmailInputs, Passwords)
    \/ Tick
    \/ Respond

SpecRecover == InitRecover /\ [][NextRecover]_vars

----------------------------------------------------------------------------
(* Properties *)

\* a step that produces the response of a request
Completes == resp = NoResp /\ resp' # NoResp

Completed(ops) == Completes /\ resp'.op \in ops

Challenged == {"user_reg", "user_recover"}

\* C1 (as stated): once a register or recover has succeeded with a request id,
\* every later register or recover carrying that request id fails with
\* CaptchaFailed, whatever code it supplies.
C1_ConsumedIdFailsWithCaptchaFailed ==
    [][(Completed(Challenged) /\ resp'.req.request_id \in consumed)
        => resp'.kind = "CAPTCHA_FAILED"]_vars

\* C1 (amended): once a register or recover has succeeded with a request id,
\* every later register or recover carrying that request id fails, whatever
\* code it supplies: with CaptchaFailed when it reaches the challenge
\* verification, and otherwise with the error of the earlier check it fails
\* (InvalidOperation or ResourceConflict in register, NotFound in recover);
\* it changes no User record.
C1_ConsumedIdNeverAcceptedAgain ==
    [][/\ (Completed(Challenged) /\ resp'.req.request_id \in consumed)
            => /\ resp'.kind \in {"CAPTCHA_FAILED", "INVALID_OPERATION",
                                  "RESOURCE_CONFILCT", "NOT_FOUND"}
               /\ users' = users
       /\ \A s \in Slots :
            (/\ inflight[s] # Idle
             /\ inflight[s].pc = "get"
             /\ inflight[s].request_id \in consumed
             /\ inflight'[s] # inflight[s])
            => inflight'[s] = Idle /\ resp'.kind = "CAPTCHA_FAILED"]_vars

\* C1 witness: a request carrying a consumed request id and the code that was
\* mailed for it has been answered CaptchaFailed
C1_Witness ==
    /\ resp # NoResp
    /\ resp.op \in Challenged
    /\ resp.kind = "CAPTCHA_FAILED"
    /\ resp.req.request_id \in consumed
    /\ resp.req.captcha = sent[resp.req.request_id].code

\* C2: each uid owns at most one address with is_default = true, in every
\* state reachable by add, update and delete operations.
C2_SingleDefault ==
    \A u \in users :
        Cardinality({a \in addresses : a.uid = u.uid /\ a.is_default}) <= 1

\* C3: registrations with distinct emails, usernames and challenges that run
\* concurrently against an empty store leave at most one ADMIN among the
\* users they create.
C3_AtMostOneBootstrapAdmin ==
    \A u, v \in users :
        (/\ u.uid # v.uid
         /\ u.email # v.email
         /\ u.username # v.username)
        => ~(u.permission = "ADMIN" /\ v.permission = "ADMIN")

\* C4: served one at a time, a register that succeeds while the store holds
\* no user creates an ADMIN, and one that succeeds while the store holds a
\* user creates a USER.
C4_SequentialBootstrap ==
    [][(Completed({"user_reg"}) /\ resp'.kind = "OK")
        => /\ Cardinality(users' \ users) = 1
           /\ users \subseteq users'
           /\ \A u \in users' \ users :
                /\ u.uid = resp'.req.request_id
                /\ u.permission = IF users = {} THEN "ADMIN" ELSE "USER"]_vars

\* C4 witness: a second registration has succeeded and created a USER beside
\* the ADMIN of the first
C4_Witness ==
    /\ resp # NoResp
    /\ resp.op = "user_reg"
    /\ resp.kind = "OK"
    /\ \E u, v \in users :
        /\ u.permission = "ADMIN"
        /\ v.permission = "USER"
        /\ v.uid = resp.req.request_id
        /\ v.email # u.email
        /\ v.username # u.username

\* C5: a register whose normalized email or whose username is that of an
\* existing User is rejected (with ResourceConflict) and inserts no User, so
\* that no two User records share an email or a username.  The formula asks
\* only that such a request is not accepted and that the store stays free of
\* shared emails and usernames.
C5_DuplicateRejected ==
    [][/\ (/\ Completed({"user_reg"})
           /\ EmailValid(resp'.req.email)
           /\ \E u \in users : \/ u.email = Normalized[resp'.req.email]
                               \/ u.username = resp'.req.username)
            => resp'.kind # "OK" /\ users' = users
       /\ \A u, v \in users' :
            u # v => u.email # v.email /\ u.username # v.username]_vars

\* the stored user a request names as its caller
CallerOf(r) == CHOOSE u \in users : u.uid = r.req.caller

\* C6: updateProfile by a caller who is not ADMIN on a uid other than the
\* caller's own ends with AuthorizationFailed and changes no User record.
C6_ForeignUpdateAuthorizationFailed ==
    [][(/\ Completed({"user_update"})
        /\ CallerOf(resp').permission # "ADMIN"
        /\ resp'.req.uid # resp'.req.caller)
        => resp'.kind = "AUTHORIZATION_FAILED" /\ users' = users]_vars

\* C7: updateProfile by a caller who is not ADMIN, on the caller's own
\* record, with a permission in the patch that differs from the stored one,
\* fails with AuthorizationFailed and leaves the record unchanged.
C7_EscalationAuthorizationFailed ==
    [][(/\ Completed({"user_update"})
        /\ CallerOf(resp').permission # "ADMIN"
        /\ resp'.req.uid = resp'.req.caller
        /\ resp'.req.body.permission # None
        /\ resp'.req.body.permission # Some(CallerOf(resp').permission))
        => resp'.kind = "AUTHORIZATION_FAILED" /\ users' = users]_vars

\* C8: a register or recover for an email succeeds only with a challenge
\* that was mailed to that email.
C8_ChallengeBoundToEmail ==
    [][(Completed(Challenged) /\ resp'.kind = "OK")
        => /\ resp'.req.request_id \in DOMAIN sent
           /\ EmailValid(resp'.req.email)
           /\ sent[resp'.req.request_id].to = Normalized[resp'.req.email]]_vars

\* a challenge that was issued, has not been consumed and is gone from the cache
Expired(request_id) ==
    /\ request_id \in DOMAIN sent
    /\ request_id \notin consumed
    /\ request_id \notin DOMAIN cache

\* C9: a challenge lives at most its 300 seconds; once it is gone from the
\* store no step brings it back or prolongs it, and a register or recover
\* that reaches the verification with its request id after the expiry fails
\* with CaptchaFailed, even with the right code, and changes no user.
C9_ExpiredChallengeFails ==
    [][/\ \A k \in DOMAIN cache' :
            IF k \in DOMAIN sent
            THEN /\ k \in DOMAIN cache
                 /\ cache'[k].value = cache[k].value
                 /\ cache'[k].ttl <= cache[k].ttl
            ELSE cache'[k].ttl = CaptchaTtl
       /\ \A k \in DOMAIN cache' : cache'[k].ttl > 0 /\ cache'[k].ttl <= CaptchaTtl
       /\ \A s \in Slots :
            (/\ inflight[s] # Idle
             /\ inflight[s].pc = "get"
             /\ Expired(inflight[s].request_id)
             /\ inflight'[s] # inflight[s])
            => /\ inflight'[s] = Idle
               /\ resp'.kind = "CAPTCHA_FAILED"
               /\ users' = users]_vars

\* C9 witness: a request that carried the code mailed for an expired
\* challenge has been answered CaptchaFailed
C9_Witness ==
    /\ resp # NoResp
    /\ resp.op \in Challenged
    /\ resp.kind = "CAPTCHA_FAILED"
    /\ Expired(resp.req.request_id)
    /\ resp.req.captcha = sent[resp.req.request_id].code

\* C10: login answers with a token exactly when a user of that username
\* exists and the password is the one behind the stored hash; otherwise it
\* answers AuthFailed, in both failure cases; it changes neither store.
C10_Login ==
    [][Completed({"user_login"})
        => /\ resp'.kind \in {"OK", "AUTH_FAILED"}
           /\ resp'.kind = "OK"
                <=> \E u \in users : /\ u.username = resp'.req.username
                                     /\ u.password.plain = resp'.req.password
           /\ resp'.kind = "OK"
                => \E u \in users : /\ u.username = resp'.req.username
                                    /\ resp'.data.access_token.sub = u.username
                                    /\ resp'.data.access_token.id = u.uid
           /\ UNCHANGED <<users, addresses, cache, sent, consumed, inflight>>]_vars

\* C10 witness: a login with the wrong password for an existing user has been
\* answered AuthFailed, while the user's own password would verify
C10_Witness ==
    /\ resp # NoResp
    /\ resp.op = "user_login"
    /\ resp.kind = "AUTH_FAILED"
    /\ \E u \in users : /\ u.username = resp.req.username
                        /\ u.password.plain # resp.req.password

\* the caller of the request owns an address of that identifier
Owns(uid, aid) == \E a \in addresses : a.uid = uid /\ a.aid = aid

\* C11: update_address for an aid the caller owns no address of (aid unknown,
\* aid of another user, or no address at all) fails with NotFound and changes
\* no address.
C11_UpdateMissingNotFound ==
    [][(Completed({"update_address"}) /\ ~Owns(resp'.req.caller, resp'.req.aid))
        => resp'.kind = "NOT_FOUND" /\ addresses' = addresses]_vars

\* C12: delete_address removes exactly the address of that aid owned by the
\* caller and leaves every other address as it was; when the caller owns no
\* address of that aid it fails with NotFound and removes nothing.
C12_DeleteExactlyTheAddress ==
    [][Completed({"delete_address"})
        => IF Owns(resp'.req.caller, resp'.req.aid)
           THEN /\ resp'.kind = "OK"
                /\ addresses' = {a \in addresses :
                                    ~(a.uid = resp'.req.caller /\ a.aid = resp'.req.aid)}
           ELSE /\ resp'.kind = "NOT_FOUND"
                /\ addresses' = addresses]_vars

\* C13: add_address with is_default = true leaves the inserted address as the
\* only default address of the caller (every address the caller had before is
\* not default after the commit, and is otherwise as it was); add_address
\* with is_default = false leaves every existing address as it was.
C13_AddDefault ==
    [][Completed({"add_address"})
        => LET uid == resp'.req.caller
               body == resp'.req.body
               new == {a \in addresses' : a.aid = resp'.req.aid}
           IN /\ resp'.kind = "OK"
              /\ resp'.req.aid \notin {a.aid : a \in addresses}
              /\ Cardinality(new) = 1
              /\ \A a \in new : a.uid = uid /\ a.is_default = body.is_default
              /\ IF body.is_default
                 THEN /\ {a \in addresses' : a.uid = uid /\ a.is_default} = new
                      /\ addresses' \ new =
                            {IF a.uid = uid THEN [a EXCEPT !.is_default = FALSE] ELSE a :
                                a \in addresses}
                 ELSE addresses' \ new = addresses]_vars

\* C13 witness: an address has been added as default for a caller who owns
\* other addresses, and it is the caller's only default
C13_Witness ==
    /\ resp # NoResp
    /\ resp.op = "add_address"
    /\ resp.kind = "OK"
    /\ resp.req.body.is_default
    /\ Cardinality({a \in addresses : a.uid = resp.req.caller}) >= 3
    /\ {a.aid : a \in {b \in addresses : b.uid = resp.req.caller /\ b.is_default}}
            = {resp.req.aid}

\* a step in which the handler suspended in slot s commits its mutation
Commits(s) ==
    /\ inflight[s] # Idle
    /\ inflight[s].pc = "commit"
    /\ inflight'[s] = Idle
    /\ resp'.kind = "OK"

\* C14: of the register and recover requests that carry one request id and
\* its code and run concurrently, at most one passes the verification and
\* performs its mutation: no handler commits for a request id that another
\* request has already succeeded with.
C14_ConsumedOnce ==
    [][\A s \in Slots : Commits(s) => inflight[s].request_id \notin consumed]_vars

\* C15: in register and recover the challenge is gone from the cache before
\* the user is inserted or the password changed; a challenge once removed is
\* never put back; and a request that ends after the removal without its
\* commit (cancelled) leaves the challenge absent and every user as it was.
C15_DeleteThenMutate ==
    [][/\ users' # users
            => \E s \in Slots : /\ Commits(s)
                                /\ inflight[s].request_id \notin DOMAIN cache
                                /\ inflight[s].request_id \notin DOMAIN cache'
       /\ \A k \in DOMAIN cache' : k \in DOMAIN cache \/ k \notin DOMAIN sent
       /\ \A s \in Slots :
            (/\ inflight[s] # Idle
             /\ inflight[s].pc = "commit"
             /\ inflight'[s] = Idle
             /\ resp'.kind # "OK")
            => /\ users' = users
               /\ inflight[s].request_id \notin DOMAIN cache']_vars

\* C15 witness: a request was cancelled after its cache.delete and before its
\* commit: its challenge is gone, unused, and no user carries its request id
C15_Witness ==
    /\ resp # NoResp
    /\ resp.kind = "CANCELLED"
    /\ resp.data.pc = "commit"
    /\ resp.req.request_id \in DOMAIN sent
    /\ resp.req.captcha = sent[resp.req.request_id].code
    /\ resp.req.request_id \notin DOMAIN cache
    /\ resp.req.request_id \notin consumed
    /\ \A u \in users : u.uid # resp.req.request_id

\* the error kinds a register or a recover is rejected with
Rejections ==
    [user_reg |-> {"INVALID_OPERATION", "RESOURCE_CONFILCT", "CAPTCHA_FAILED"},
     user_recover |-> {"NOT_FOUND", "CAPTCHA_FAILED"}]

\* C16: a register rejected with InvalidOperation, ResourceConflict or
\* CaptchaFailed and a recover rejected with NotFound or CaptchaFailed change
\* neither the cache nor any user, in the step that rejects them and in the
\* steps they took before; so a stored challenge survives the rejection, and
\* a request that then reaches the verification with the stored code passes it.
C16_RejectedChangesNothing ==
    [][/\ (Completed(Challenged) /\ resp'.kind \in Rejections[resp'.op])
            => cache' = cache /\ users' = users /\ addresses' = addresses
       /\ Completed(Challenged) => resp'.kind \in Rejections[resp'.op] \cup {"OK"}
       /\ \A s \in Slots :
            (inflight[s] = Idle /\ inflight'[s] # Idle)
            => cache' = cache /\ users' = users
       /\ \A s \in Slots :
            (inflight[s] # Idle /\ inflight[s].pc = "get" /\ inflight'[s] # inflight[s])
            => /\ cache' = cache /\ users' = users
               /\ (/\ inflight[s].request_id \in DOMAIN cache
                   /\ cache[inflight[s].request_id].value = inflight[s].captcha)
                  => /\ inflight'[s] # Idle
                     /\ inflight'[s].pc = "delete"]_vars

\* C16 witness: a request with a wrong code has been rejected with
\* CaptchaFailed, and the challenge it named is still stored with the code
\* that was mailed
C16_Witness ==
    /\ resp # NoResp
    /\ resp.op \in Challenged
    /\ resp.kind = "CAPTCHA_FAILED"
    /\ resp.req.request_id \in DOMAIN cache
    /\ resp.req.captcha # cache[resp.req.request_id].value
    /\ cache[resp.req.request_id].value = sent[resp.req.request_id].code

\* the purpose a challenge must have been issued for to serve the operation
PurposeOf == [user_reg |-> "REGISTER", user_recover |-> "RECOVER_PASSWORD"]

\* C17: a challenge issued by the registration-challenge operation is accepted
\* only by register and one issued by the recovery-challenge operation only by
\* recover: a request that presents the request id and code of a challenge of
\* the other purpose fails (with CaptchaFailed).  The formula asks only that
\* such a request does not succeed.
C17_PurposeBound ==
    [][(/\ Completed(Challenged)
        /\ resp'.req.request_id \in DOMAIN sent
        /\ resp'.req.captcha = sent[resp'.req.request_id].code
        /\ sent[resp'.req.request_id].purpose # PurposeOf[resp'.op])
        => resp'.kind # "OK"]_vars

\* C18: update_address on an address the caller owns changes the address,
\* phone, name and is_default fields of that address only; of every other
\* address it changes nothing but is_default, which it clears on the caller's
\* other addresses when the patch has is_default = true.
C18_UpdateFrame ==
    [][(Completed({"update_address"}) /\ Owns(resp'.req.caller, resp'.req.aid))
        => \A a \in addresses :
            a.aid # resp'.req.aid
            => \E b \in addresses' :
                /\ b.aid = a.aid
                /\ b.uid = a.uid
                /\ b.address = a.address
                /\ b.phone = a.phone
                /\ b.name = a.name
                /\ b.is_default =
                      IF resp'.req.body.is_default /\ a.uid = resp'.req.caller
                      THEN FALSE ELSE a.is_default]_vars

AddressOps == {"get_address", "add_address", "update_address", "delete_address"}

\* C19: an address operation carried out for a caller creates, changes and
\* removes no address owned by another uid; get_address returns addresses of
\* the caller only; and the owner of an existing address never changes.
C19_OwnershipIsolation ==
    [][/\ Completed(AddressOps)
            => /\ {a \in addresses' : a.uid # resp'.req.caller}
                    = {a \in addresses : a.uid # resp'.req.caller}
               /\ resp'.op = "get_address"
                    => resp'.data.addresses
                          = {a \in addresses : a.uid = resp'.req.caller}
       /\ \A a \in addresses, b \in addresses' : a.aid = b.aid => a.uid = b.uid]_vars

\* C19 witness: a caller's update_address named an address owned by another
\* user, with other contents, and was answered; that address is still there
C19_Witness ==
    /\ resp # NoResp
    /\ resp.op = "update_address"
    /\ \E a, b \in addresses :
        /\ a.uid # resp.req.caller
        /\ a.aid = resp.req.aid
        /\ a.address # resp.req.body.address
        /\ a.is_default # resp.req.body.is_default
        /\ b.uid = resp.req.caller

\* C20: a recover that succeeds changes the password hash of one user whose
\* email is the submitted one, to the hash of the submitted password, and
\* returns that user's username; the user's other fields, every other user,
\* the number of users and every address stay as they were.
C20_RecoverFrame ==
    [][(Completed({"user_recover"}) /\ resp'.kind = "OK")
        => /\ \E s \in Slots, u \in users, salt \in Salts :
                /\ Commits(s)
                /\ u.email = resp'.req.email
                /\ resp'.data.username = u.username
                /\ users' = (users \ {u})
                              \cup {[u EXCEPT !.password = hashpw(inflight[s].password, salt)]}
           /\ Cardinality(users') = Cardinality(users)
           /\ addresses' = addresses]_vars

\* C20 witness: a recover has succeeded in a store of several users, one of
\* whom shares the email; the user named in the answer holds a password other
\* than the one the others still hold
C20_Witness ==
    /\ resp # NoResp
    /\ resp.op = "user_recover"
    /\ resp.kind = "OK"
    /\ \E u, v, w \in users :
        /\ u.username = resp.data.username
        /\ u.email = resp.req.email
        /\ v.uid # u.uid /\ v.email = u.email
        /\ w.uid # u.uid /\ w.email # u.email
        /\ u.password # v.password
        /\ v.password = w.password

====
